---------------------------- MODULE Spec2Model ----------------------------
(***************************************************************************)
(* A model of taskflow's Graph Flow pattern (patterns/graph_flow.py) and   *)
(* of its Storage (storage.py).                                            *)
(***************************************************************************)
EXTENDS Integers, Sequences, FiniteSets, TLC

(***************************************************************************)
(* Bounds of the model.                                                    *)
(***************************************************************************)
\* the largest number of items handed to one add(items...) call
MaxAddItems == 2

\* the largest number of Task Details in the Flow Detail
MaxTasks == 2

\* the largest number of inject calls
MaxInjects == 2

\* the largest number of entries the reverse mapping holds under one name
MaxEntries == 2

(***************************************************************************)
(* Graph Flow: the universe of task objects.  A task is identified by its  *)
(* object identity and carries the sets requires and provides.             *)
(***************************************************************************)
ItemOrder == <<"A", "B", "C", "D", "E", "F">>

Items == {ItemOrder[i] : i \in 1..Len(ItemOrder)}

SymOrder == <<"x", "y", "z">>

Symbols == {SymOrder[i] : i \in 1..Len(SymOrder)}

\* node.requires
Requires(n) ==
    CASE n = "A" -> {}
      [] n = "B" -> {"x"}
      [] n = "C" -> {}
      [] n = "D" -> {"x"}
      [] n = "E" -> {"y"}
      [] n = "F" -> {"z"}

\* node.provides
Provides(n) ==
    CASE n = "A" -> {"x"}
      [] n = "B" -> {}
      [] n = "C" -> {"x"}
      [] n = "D" -> {"y"}
      [] n = "E" -> {"x"}
      [] n = "F" -> {"z"}

\* the value of a dict lookup that misses
NoNode == "NoNode"

VARIABLES
    nodes,      \* Flow._graph: the node set of the DiGraph
    edges,      \* Flow._graph: the edge set of the DiGraph, pairs <<u, v>>
    gcall,      \* the last Graph Flow call: its name, its arguments, its outcome
    fd,         \* Storage._flowdetail: its Task Details, in order
    fstate,     \* Storage._flowdetail.state
    resultMappings,  \* Storage._result_mappings: uuid -> (name -> index)
    reverseMapping,  \* Storage._reverse_mapping: name -> list of (uuid, index)
    hasBackend, \* Storage._backend is not None
    bstore,     \* the backend's record of the flow: its state, its Task Details
    injected,   \* the number of uuids generate_uuid has handed out to inject
    scall,      \* the last Storage call (or write of a peer to the backend):
                \* its name, arguments, error and result
    blog,       \* the backend updates of the last Storage call, in order
    conns,      \* the number of backend connections the Storage holds open
    th,         \* the threads that call a ThreadSafeStorage: their call stacks
    lock,       \* the lock of the ThreadSafeStorage: its holder, its depth
    reentrant,  \* whether the lock may be taken again by the thread holding it
    seq         \* the calls of the threads, applied one after another

gvars == <<nodes, edges, gcall>>

tvars == <<th, lock, reentrant, seq>>

svars == <<fd, fstate, resultMappings, reverseMapping, hasBackend, bstore,
           injected, scall, blog, conns, th, lock, reentrant, seq>>

vars == <<nodes, edges, gcall, fd, fstate, resultMappings, reverseMapping,
          hasBackend, bstore, injected, scall, blog, conns,
          th, lock, reentrant, seq>>

----------------------------------------------------------------------------
(***************************************************************************)
(* Helpers: iteration orders and the acyclicity test of networkx.          *)
(***************************************************************************)
\* the elements of a set of symbols, in iteration order
SymSeq(S) == SelectSeq(SymOrder, LAMBDA s : s \in S)

\* the nodes of the graph, in iteration order (Flow.__iter__)
NodeSeq(S) == SelectSeq(ItemOrder, LAMBDA n : n \in S)

RECURSIVE HasCycle(_, _)
\* whether the edges E over the nodes N hold a directed cycle: strip the nodes
\* without a predecessor until none is left (acyclic) or none can go (a cycle)
HasCycle(N, E) ==
    IF N = {}
    THEN FALSE
    ELSE LET free == {n \in N : \A e \in E : e[2] # n}
         IN  IF free = {}
             THEN TRUE
             ELSE HasCycle(N \ free, {e \in E : e[1] \notin free})

\* dag.is_directed_acyclic_graph: no directed cycle, self-loops included
IsDAG(N, E) == ~HasCycle(N, E)

\* DiGraph.remove_nodes_from: the nodes go, and every edge that touches one
RemoveNodes(N, E, gone) ==
    [nodes |-> N \ gone,
     edges |-> {e \in E : e[1] \notin gone /\ e[2] \notin gone}]

\* a mutation of LinkResult: the edge is added and never tested for a cycle
LinkResultUnchecked(N, E, u, v) ==
    IF u \notin N \/ v \notin N
    THEN [err |-> "value", edges |-> E]
    ELSE [err |-> "none", edges |-> E \cup {<<u, v>>}]

\* a mutation of LinkResult: the edge that closes a cycle is left in the graph
\* when the error is raised
LinkResultEdgeLeft(N, E, u, v) ==
    IF u \notin N \/ v \notin N
    THEN [err |-> "value", edges |-> E]
    ELSE LET E2 == E \cup {<<u, v>>}
         IN  IF IsDAG(N, E2)
             THEN [err |-> "none", edges |-> E2]
             ELSE [err |-> "dependency", edges |-> E2]

(***************************************************************************)
(* Flow.link(u, v), as a function of the graph: the error raised ("none"   *)
(* when it returns) and the edge set it leaves.                            *)
(***************************************************************************)
LinkResult(N, E, u, v) ==
    IF u \notin N \/ v \notin N
    THEN [err |-> "value", edges |-> E]
    ELSE LET E2 == E \cup {<<u, v>>}
         IN  IF IsDAG(N, E2)
             THEN [err |-> "none", edges |-> E2]
             ELSE [err |-> "dependency", edges |-> E2 \ {<<u, v>>}]

RECURSIVE LinkAll(_, _, _, _)
\* the links of one loop of add, in order, up to the first that raises
LinkAll(N, E, pairs, i) ==
    IF i > Len(pairs)
    THEN [err |-> "none", edges |-> E]
    ELSE LET r == LinkResult(N, E, pairs[i][1], pairs[i][2])
         IN  IF r.err # "none" THEN r ELSE LinkAll(N, r.edges, pairs, i + 1)

(***************************************************************************)
(* Flow.add(items...).                                                       *)
(***************************************************************************)
\* update_requirements(node): requirements[value].append(node)
UpdateRequirements(req, n) ==
    [s \in Symbols |-> IF s \in Requires(n) THEN Append(req[s], n) ELSE req[s]]

RECURSIVE ScanGraph(_, _, _)
\* the first loop of add: requirements and provided of the nodes in the graph
ScanGraph(ns, i, m) ==
    IF i > Len(ns)
    THEN m
    ELSE ScanGraph(ns, i + 1,
            [req  |-> UpdateRequirements(m.req, ns[i]),
             prov |-> [s \in Symbols |->
                         IF s \in Provides(ns[i]) THEN ns[i] ELSE m.prov[s]]])

EmptyMaps == [req  |-> [s \in Symbols |-> <<>>],
              prov |-> [s \in Symbols |-> NoNode]]

\* the flattening of a sequence of sequences
RECURSIVE Flatten(_)
Flatten(ss) == IF ss = <<>> THEN <<>> ELSE Head(ss) \o Flatten(Tail(ss))

\* a mutation of ProducerLinks: a new consumer is not linked to the producers
\* that are already known
ProducerLinksNone(item, prov) == <<>>

\* for value in item.requires: if value in provided: link(provided[value], item)
ProducerLinks(item, prov) ==
    LET syms == SelectSeq(SymSeq(Requires(item)), LAMBDA s : prov[s] # NoNode)
    IN  [k \in 1..Len(syms) |-> <<prov[syms[k]], item>>]

\* a mutation of ConsumerLinks: a new producer is not linked to the consumers
\* that are already known
ConsumerLinksNone(item, req) == <<>>

\* for value in item.provides: for node in requirements[value]: link(item, node)
ConsumerLinks(item, req) ==
    LET syms == SymSeq(Provides(item))
    IN  Flatten([k \in 1..Len(syms) |->
                   [j \in 1..Len(req[syms[k]]) |-> <<item, req[syms[k]][j]>>]])

\* a mutation of DuplicateProducer: the duplicate-producer test is left out
DuplicateProducerNever(item, prov) == FALSE

\* for value in item.provides: if value in provided: raise DependencyFailure
DuplicateProducer(item, prov) == \E s \in Provides(item) : prov[s] # NoNode

RECURSIVE AddLoop(_, _, _, _, _)
\* the body of the try block: the items in order, up to the first raise
AddLoop(N, E, m, items, i) ==
    IF i > Len(items)
    THEN [err |-> "none", nodes |-> N, edges |-> E]
    ELSE LET item == items[i]
             N1   == N \cup {item}
             req1 == UpdateRequirements(m.req, item)
             dup  == DuplicateProducer(item, m.prov)
             prov1 == [s \in Symbols |->
                         IF s \in Provides(item) THEN item ELSE m.prov[s]]
             l1   == LinkAll(N1, E, ProducerLinks(item, prov1), 1)
             l2   == LinkAll(N1, l1.edges, ConsumerLinks(item, req1), 1)
         IN  IF dup
             THEN [err |-> "dependency", nodes |-> N1, edges |-> E]
             ELSE IF l1.err # "none"
             THEN [err |-> l1.err, nodes |-> N1, edges |-> l1.edges]
             ELSE IF l2.err # "none"
             THEN [err |-> l2.err, nodes |-> N1, edges |-> l2.edges]
             ELSE AddLoop(N1, l2.edges, [req |-> req1, prov |-> prov1],
                          items, i + 1)

\* the set of the items of an argument list
ItemSet(items) == {items[i] : i \in 1..Len(items)}

\* add(items...): the error raised and the graph left; the except clause removes
\* every item of the argument list from the graph before re-raising
AddResult(N, E, items) ==
    LET m == ScanGraph(NodeSeq(N), 1, EmptyMaps)
        r == AddLoop(N, E, m, items, 1)
        back == RemoveNodes(r.nodes, r.edges, ItemSet(items))
    IN  IF r.err = "none"
        THEN r
        ELSE [err |-> r.err, nodes |-> back.nodes, edges |-> back.edges]

(***************************************************************************)
(* Flow.provides and Flow.requires: the properties of the flow.            *)
(***************************************************************************)
RECURSIVE ProvidesUpdate(_, _, _)
\* for subflow in self: provides.update(subflow.provides)
ProvidesUpdate(ns, i, acc) ==
    IF i > Len(ns) THEN acc ELSE ProvidesUpdate(ns, i + 1, acc \cup Provides(ns[i]))

RECURSIVE RequiresUpdate(_, _, _)
\* for subflow in self: requires.update(subflow.requires)
RequiresUpdate(ns, i, acc) ==
    IF i > Len(ns) THEN acc ELSE RequiresUpdate(ns, i + 1, acc \cup Requires(ns[i]))

\* Flow.provides of a flow with the nodes N
FlowProvides(N) == ProvidesUpdate(NodeSeq(N), 1, {})

\* a mutation of FlowRequires: what the flow provides is not taken out
FlowRequiresAll(N) == RequiresUpdate(NodeSeq(N), 1, {})

\* Flow.requires of a flow with the nodes N
FlowRequires(N) == RequiresUpdate(NodeSeq(N), 1, {}) \ FlowProvides(N)

----------------------------------------------------------------------------
(***************************************************************************)
(* Storage: task states, task results and indexes into results.            *)
(***************************************************************************)
\* taskflow.states: the states of a task
States == {"PENDING", "RUNNING", "SUCCESS", "FAILURE", "REVERTING", "REVERTED"}

STATES_WITH_RESULTS == {"SUCCESS", "REVERTING", "FAILURE"}

\* Python values: None, an int, a str, a list, a dict, a misc.Failure
None == [kind |-> "none"]

PyInt(n) == [kind |-> "int", n |-> n]

PyStr(k) == [kind |-> "str", s |-> k]

PyList(items) == [kind |-> "list", items |-> items]

PyDict(map) == [kind |-> "dict", map |-> map]

Failure == [kind |-> "failure"]

\* the outcome of a lookup: a value, or the NotFound exception
Found(v) == [found |-> TRUE, val |-> v]

NotFound == [found |-> FALSE, val |-> None]

\* _item_from_result(result, index, name): the whole result for the index
\* None, else result[index]; a failed subscript (IndexError, KeyError,
\* TypeError) becomes NotFound
ItemFromResult(result, index) ==
    IF index = None
    THEN Found(result)
    ELSE IF result.kind = "list" /\ index.kind = "int"
    THEN LET n == Len(result.items)
         IN  IF index.n >= 0 /\ index.n < n
             THEN Found(result.items[index.n + 1])
             ELSE IF index.n < 0 /\ index.n >= 0 - n
             THEN Found(result.items[n + index.n + 1])
             ELSE NotFound
    ELSE IF result.kind = "dict" /\ index.kind = "str"
    THEN IF index.s \in DOMAIN result.map
         THEN Found(result.map[index.s])
         ELSE NotFound
    ELSE NotFound

(***************************************************************************)
(* The Flow Detail, the Task Details and the backend.  The classes of      *)
(* taskflow.persistence are modelled from their description: a Task Detail *)
(* is a record, the Flow Detail an ordered collection of them, the backend *)
(* keeps the flow's record with its Task Details keyed by uuid.            *)
(***************************************************************************)
\* logbook.TaskDetail(name, uuid), before add_task sets its state
TaskDetail(uuid, name) ==
    [uuid |-> uuid, name |-> name, state |-> "PENDING",
     results |-> None, meta |-> None]

\* FlowDetail.find(uuid): the position of the first Task Detail with the
\* uuid, 0 for none
Find(tds, uuid) ==
    IF \E i \in 1..Len(tds) : tds[i].uuid = uuid
    THEN CHOOSE i \in 1..Len(tds) :
            /\ tds[i].uuid = uuid
            /\ \A j \in 1..(i - 1) : tds[j].uuid # uuid
    ELSE 0

\* the backend's merge of one Task Detail into its records: the caller's
\* fields overlay the stored ones, an unknown uuid is added
MergeTask(tds, td) ==
    IF Find(tds, td.uuid) = 0
    THEN Append(tds, td)
    ELSE [tds EXCEPT ![Find(tds, td.uuid)] = td]

RECURSIVE MergeTasks(_, _, _)
\* the backend's merge of the Task Details of a Flow Detail, in order
MergeTasks(tds, new, i) ==
    IF i > Len(new) THEN tds ELSE MergeTasks(MergeTask(tds, new[i]), new, i + 1)

\* conn.update_flow_details(flow_detail): the merged record, which is stored
\* and returned
UpdateFlowDetails(b, state, tds) ==
    [state |-> state, tasks |-> MergeTasks(b.tasks, tds, 1)]

\* conn.update_task_details(task_detail): the merged records
UpdateTaskDetails(b, td) ==
    [state |-> b.state, tasks |-> MergeTask(b.tasks, td)]

(***************************************************************************)
(* The operations of Storage as functions of its state.  A working state   *)
(* w holds the Flow Detail (fd, fstate), the backend's records (b), the    *)
(* backend updates made so far by the call (log) and the error raised      *)
(* (err, "none" while none is) and the number of open connections (open).  *)
(* fail is the number of the backend update of the call that raises, 0     *)
(* when none does.                                                         *)
(***************************************************************************)
\* self._backend.get_connection(): one more connection is open
GetConnection(w) == [w EXCEPT !.open = @ + 1]

\* a mutation of Closing: the connection is closed after the functor has
\* returned, and stays open when the functor raises
ClosingOnReturn(w) == IF w.err = "none" THEN [w EXCEPT !.open = @ - 1] ELSE w

\* contextlib.closing: conn.close() when the with block is left, by a return
\* or by an exception
Closing(w) == [w EXCEPT !.open = @ - 1]

\* a mutation of SaveFlowDetail: the Flow Detail is handed to the backend and
\* what the backend returns is dropped
SaveFlowDetailKept(w, backend, fail) ==
    IF ~backend
    THEN w
    ELSE LET offered == [kind |-> "flow", state |-> w.fstate, tasks |-> w.fd]
             merged  == UpdateFlowDetails(w.b, w.fstate, w.fd)
             c       == GetConnection(w)
         IN  Closing(
               IF Len(w.log) + 1 = fail
               THEN [c EXCEPT !.log = Append(w.log, offered), !.err = "backend"]
               ELSE [c EXCEPT !.log = Append(w.log, offered), !.b = merged])

\* _with_connection(_save_flow_detail): without a backend nothing; else the
\* Flow Detail is handed to the backend and overwritten with what it returns
SaveFlowDetail(w, backend, fail) ==
    IF ~backend
    THEN w
    ELSE LET offered == [kind |-> "flow", state |-> w.fstate, tasks |-> w.fd]
             merged  == UpdateFlowDetails(w.b, w.fstate, w.fd)
             c       == GetConnection(w)
         IN  Closing(
               IF Len(w.log) + 1 = fail
               THEN [c EXCEPT !.log = Append(w.log, offered), !.err = "backend"]
               ELSE [c EXCEPT !.log = Append(w.log, offered),
                              !.b = merged,
                              !.fd = merged.tasks,
                              !.fstate = merged.state])

\* a mutation of SaveTaskDetail: the Task Detail is not handed to the backend
SaveTaskDetailSkipped(w, backend, fail, uuid) == w

\* _with_connection(_save_task_detail, task_detail=td): without a backend
\* nothing; else the Task Detail is handed to the backend and overwritten
\* with what it returns
SaveTaskDetail(w, backend, fail, uuid) ==
    IF ~backend
    THEN w
    ELSE LET pos     == Find(w.fd, uuid)
             offered == [kind |-> "task", td |-> w.fd[pos]]
             merged  == UpdateTaskDetails(w.b, w.fd[pos])
             c       == GetConnection(w)
         IN  Closing(
               IF Len(w.log) + 1 = fail
               THEN [c EXCEPT !.log = Append(w.log, offered), !.err = "backend"]
               ELSE [c EXCEPT !.log = Append(w.log, offered),
                              !.b = merged,
                              !.fd[pos] = merged.tasks[Find(merged.tasks, uuid)]])

\* the exception of _taskdetail_by_uuid for an unknown uuid
RaiseNotFound(w) == [w EXCEPT !.err = "notfound"]

\* add_task(uuid, task_name)
AddTaskOp(w, backend, fail, uuid, name) ==
    LET w1 == [w EXCEPT !.fd = Append(w.fd, TaskDetail(uuid, name))]
        w2 == SaveFlowDetail(w1, backend, fail)
    IN  IF w2.err # "none" THEN w2 ELSE SaveTaskDetail(w2, backend, fail, uuid)

\* a mutation of SetTaskStateOp: the Task Detail is added to the Flow Detail
\* again once its state is set
SetTaskStateOpAdded(w, backend, fail, uuid, state) ==
    LET pos == Find(w.fd, uuid)
    IN  IF pos = 0
        THEN RaiseNotFound(w)
        ELSE SaveTaskDetail(
                [w EXCEPT !.fd = Append([@ EXCEPT ![pos].state = state],
                                        [@[pos] EXCEPT !.state = state])],
                backend, fail, uuid)

\* set_task_state(uuid, state)
SetTaskStateOp(w, backend, fail, uuid, state) ==
    LET pos == Find(w.fd, uuid)
    IN  IF pos = 0
        THEN RaiseNotFound(w)
        ELSE SaveTaskDetail([w EXCEPT !.fd[pos].state = state],
                            backend, fail, uuid)

\* the td.meta that set_task_progress leaves; kwargs is None when no keyword
\* argument is given
ProgressMeta(meta, progress, kwargs) ==
    LET m0 == IF meta = None THEN <<>> ELSE meta.map
        m1 == ("progress" :> progress) @@ m0
    IN  IF kwargs # None
        THEN PyDict(("progress_details" :> kwargs) @@ m1)
        ELSE PyDict([k \in DOMAIN m1 \ {"progress_details"} |-> m1[k]])

\* set_task_progress(uuid, progress, **kwargs)
SetTaskProgressOp(w, backend, fail, uuid, progress, kwargs) ==
    LET pos == Find(w.fd, uuid)
    IN  IF pos = 0
        THEN RaiseNotFound(w)
        ELSE SaveTaskDetail(
                [w EXCEPT !.fd[pos].meta =
                    ProgressMeta(w.fd[pos].meta, progress, kwargs)],
                backend, fail, uuid)

\* a mutation of SaveOp: the state is set and the results are not stored
SaveOpStateOnly(w, backend, fail, uuid, data, state) ==
    LET pos == Find(w.fd, uuid)
    IN  IF pos = 0
        THEN RaiseNotFound(w)
        ELSE SaveTaskDetail([w EXCEPT !.fd[pos].state = state],
                            backend, fail, uuid)

\* save(uuid, data, state)
SaveOp(w, backend, fail, uuid, data, state) ==
    LET pos == Find(w.fd, uuid)
    IN  IF pos = 0
        THEN RaiseNotFound(w)
        ELSE SaveTaskDetail(
                [w EXCEPT !.fd[pos].state = state, !.fd[pos].results = data],
                backend, fail, uuid)

\* reset(uuid, state)
ResetOp(w, backend, fail, uuid, state) ==
    LET pos == Find(w.fd, uuid)
    IN  IF pos = 0
        THEN RaiseNotFound(w)
        ELSE SaveTaskDetail(
                [w EXCEPT !.fd[pos].results = None, !.fd[pos].state = state],
                backend, fail, uuid)

\* set_flow_state(state)
SetFlowStateOp(w, backend, fail, state) ==
    SaveFlowDetail([w EXCEPT !.fstate = state], backend, fail)

\* a mutation of GetOp: the state of the task is not looked at
GetOpAnyState(tds, uuid) ==
    LET pos == Find(tds, uuid)
    IN  IF pos = 0 THEN NotFound ELSE Found(tds[pos].results)

\* get(uuid): the results of the task when its state bears results
GetOp(tds, uuid) ==
    LET pos == Find(tds, uuid)
    IN  IF pos = 0
        THEN NotFound
        ELSE IF tds[pos].state \notin STATES_WITH_RESULTS
        THEN NotFound
        ELSE Found(tds[pos].results)

RECURSIVE FetchFromLast(_, _, _)
\* a mutation of FetchFrom: the entries are walked from the latest to the
\* earliest
FetchFromLast(tds, indexes, i) ==
    IF i > Len(indexes)
    THEN NotFound
    ELSE LET k      == Len(indexes) + 1 - i
             result == GetOp(tds, indexes[k][1])
             item   == IF result.found
                       THEN ItemFromResult(result.val, indexes[k][2])
                       ELSE NotFound
         IN  IF item.found THEN item ELSE FetchFromLast(tds, indexes, i + 1)

RECURSIVE FetchFrom(_, _, _)
\* the loop of fetch: the first entry, from position i on, that get and
\* _item_from_result both answer
FetchFrom(tds, indexes, i) ==
    IF i > Len(indexes)
    THEN NotFound
    ELSE LET result == GetOp(tds, indexes[i][1])
             item   == IF result.found
                       THEN ItemFromResult(result.val, indexes[i][2])
                       ELSE NotFound
         IN  IF item.found THEN item ELSE FetchFrom(tds, indexes, i + 1)

\* fetch(name)
FetchOp(tds, rmap, name) ==
    IF name \notin DOMAIN rmap THEN NotFound ELSE FetchFrom(tds, rmap[name], 1)

\* a mutation of AppendEntry: the entry is put before the earlier ones
AppendEntryFirst(rmap, name, entry) ==
    IF name \in DOMAIN rmap
    THEN [rmap EXCEPT ![name] = <<entry>> \o rmap[name]]
    ELSE (name :> <<entry>>) @@ rmap

\* entries = _reverse_mapping.setdefault(name, []); entries.append(entry)
AppendEntry(rmap, name, entry) ==
    IF name \in DOMAIN rmap
    THEN [rmap EXCEPT ![name] = Append(rmap[name], entry)]
    ELSE (name :> <<entry>>) @@ rmap

RECURSIVE AppendEntries(_, _, _, _)
\* the loop over a mapping name -> index that appends (uuid, index) under
\* every name; the names left to visit are todo
AppendEntries(rmap, uuid, mapping, todo) ==
    IF todo = {}
    THEN rmap
    ELSE LET name == CHOOSE n \in todo : TRUE
         IN  AppendEntries(AppendEntry(rmap, name, <<uuid, mapping[name]>>),
                           uuid, mapping, todo \ {name})

\* _check_all_results_provided(uuid, task_name, data): the names a warning
\* is logged for
MissingResults(mappings, uuid, data) ==
    IF uuid \notin DOMAIN mappings
    THEN {}
    ELSE {name \in DOMAIN mappings[uuid] :
            ~ItemFromResult(data, mappings[uuid][name]).found}

\* a mutation of SaveWarnings: the results are checked whatever the data is
SaveWarningsAlways(mappings, uuid, data) == MissingResults(mappings, uuid, data)

\* the warnings of save: none for a Failure
SaveWarnings(mappings, uuid, data) ==
    IF data = Failure THEN {} ELSE MissingResults(mappings, uuid, data)

\* inject(pairs), up to the loop over the reverse mapping: add_task, then
\* save with the default state
InjectOp(w, backend, fail, uuid, name, pairs) ==
    LET w1 == AddTaskOp(w, backend, fail, uuid, name)
    IN  IF w1.err # "none"
        THEN w1
        ELSE SaveOp(w1, backend, fail, uuid, PyDict(pairs), "SUCCESS")

\* the threads of the engine, before any of them calls the Storage
Threads == {1, 2}

\* the threads have made no call, the lock is free
ThreadsStart(kinds) ==
    /\ th = [t \in Threads |->
               [status |-> "new", op |-> "none", stack |-> <<>>, ret |-> None,
                calls |-> <<>>]]
    /\ lock = [holder |-> 0, count |-> 0]
    /\ reentrant \in kinds
    /\ seq = None

\* Storage.__init__(flow_detail, backend), with an empty Flow Detail
StorageFresh(backends) ==
    /\ fd = <<>>
    /\ fstate = "None"
    /\ resultMappings = <<>>
    /\ reverseMapping = <<>>
    /\ hasBackend \in backends
    /\ bstore = [state |-> "None", tasks |-> <<>>]
    /\ injected = 0
    /\ scall = [op |-> "init"]
    /\ blog = <<>>
    /\ conns = 0

\* a Storage no thread has called yet
StorageStart(backends) == StorageFresh(backends) /\ ThreadsStart({TRUE})

----------------------------------------------------------------------------
(***************************************************************************)
(* The state machine of a Graph Flow.                                      *)
(***************************************************************************)
\* the argument lists of add: one to MaxAddItems items, repeats allowed
AddArgs == UNION {[1..k -> Items] : k \in 1..MaxAddItems}

\* Flow.__init__: an empty graph
GraphStart ==
    /\ nodes = {}
    /\ edges = {}
    /\ gcall = [op |-> "init", args |-> <<>>, err |-> "none"]

GraphInit == GraphStart /\ StorageStart({FALSE})

Add(items) ==
    LET r == AddResult(nodes, edges, items)
    IN  /\ nodes' = r.nodes
        /\ edges' = r.edges
        /\ gcall' = [op |-> "add", args |-> items, err |-> r.err]
        /\ UNCHANGED svars

Link(u, v) ==
    LET r == LinkResult(nodes, edges, u, v)
    IN  /\ nodes' = nodes
        /\ edges' = r.edges
        /\ gcall' = [op |-> "link", args |-> <<u, v>>, err |-> r.err]
        /\ UNCHANGED svars

AddCall == \E items \in AddArgs : Add(items)

LinkCall == \E u \in Items, v \in Items : Link(u, v)

GraphNext == AddCall \/ LinkCall

GraphSpec == GraphInit /\ [][GraphNext]_vars

----------------------------------------------------------------------------
(***************************************************************************)
(* Properties of the Graph Flow, checked under GraphSpec.                  *)
(***************************************************************************)
RECURSIVE Grow(_, _)
\* the set R with every node an edge of E leads to from it, to the fixpoint
Grow(R, E) ==
    LET R2 == R \cup {e[2] : e \in {f \in E : f[1] \in R}}
    IN  IF R2 = R THEN R ELSE Grow(R2, E)

\* whether E holds a path of one or more edges from u to v
Reaches(E, u, v) == v \in Grow({e[2] : e \in {f \in E : f[1] = u}}, E)

\* no node lies on a directed cycle
NoCycle == \A n \in nodes : ~Reaches(edges, n, n)

\* the edges add(items) is to derive: producer -> consumer for every pair of
\* nodes, one of them an item of the call, that share a symbol
DerivedEdges(N, items) ==
    {pc \in (N \cup ItemSet(items)) \X (N \cup ItemSet(items)) :
        /\ pc[1] \in ItemSet(items) \/ pc[2] \in ItemSet(items)
        /\ Provides(pc[1]) \cap Requires(pc[2]) # {}}

\* the items of the argument list are pairwise distinct and not in the graph
NewItems(N, items) ==
    /\ \A i, j \in 1..Len(items) : i # j => items[i] # items[j]
    /\ ItemSet(items) \cap N = {}

\* the argument lists that hold the same items in another order
Reorderings(items) ==
    {p \in [1..Len(items) -> ItemSet(items)] : ItemSet(p) = ItemSet(items)}

\* C1: if add(items) raises, the node set and the edge set of the graph after
\* the call equal their values before the call.
C1_AddRollsBack ==
    [][(gcall'.op = "add" /\ gcall'.err # "none")
           => (nodes' = nodes /\ edges' = edges)]_vars

\* C2: after every add and link call the graph holds no directed cycle, and a
\* call that would close a cycle (a link whose target already reaches its
\* source, a self-link, an add whose derived edges close a cycle) raises the
\* dependency error; the rejected link leaves the edges as they were.
C2_Acyclic ==
    /\ NoCycle
    /\ [][/\ NoCycle'
          /\ (/\ gcall'.op = "link"
              /\ gcall'.args[1] \in nodes /\ gcall'.args[2] \in nodes
              /\ \/ gcall'.args[1] = gcall'.args[2]
                 \/ Reaches(edges, gcall'.args[2], gcall'.args[1]))
             => (gcall'.err = "dependency" /\ edges' = edges)
          /\ (/\ gcall'.op = "add"
              /\ \E n \in nodes \cup ItemSet(gcall'.args) :
                    Reaches(edges \cup DerivedEdges(nodes, gcall'.args), n, n))
             => gcall'.err = "dependency"]_vars

\* C2's case: a link between two different nodes was rejected for the cycle
C2_Witness ==
    /\ gcall.op = "link" /\ gcall.err = "dependency"
    /\ gcall.args[1] # gcall.args[2]
    /\ Reaches(edges, gcall.args[2], gcall.args[1])

\* C3: no two nodes of the graph provide the same symbol, and an add with an
\* item that provides a symbol already provided (by a node of the graph or by
\* an earlier item of the call) raises the dependency error and leaves that
\* item out of the graph.
C3_UniqueProducer ==
    /\ \A a, b \in nodes : a # b => Provides(a) \cap Provides(b) = {}
    /\ [][/\ \A a, b \in nodes' : a # b => Provides(a) \cap Provides(b) = {}
          /\ gcall'.op = "add" =>
               \A i \in 1..Len(gcall'.args) :
                  (\E s \in Provides(gcall'.args[i]) :
                      \/ \E n \in nodes : s \in Provides(n)
                      \/ \E j \in 1..(i - 1) : s \in Provides(gcall'.args[j]))
                  => (gcall'.err = "dependency" /\ gcall'.args[i] \notin nodes')
         ]_vars

\* C3's case: a second producer of a symbol was refused while the first one
\* stays in the graph
C3_Witness ==
    /\ gcall.op = "add" /\ gcall.err = "dependency"
    /\ \E n \in nodes : \E i \in 1..Len(gcall.args) :
          /\ gcall.args[i] # n
          /\ Provides(gcall.args[i]) \cap Provides(n) # {}

\* C4: an add of pairwise distinct items that are not yet in the graph has the
\* same outcome for every order of the items: every order raises, or every
\* order returns and leaves the same node set and the same edge set.
C4_OrderIndependent ==
    [][(gcall'.op = "add" /\ NewItems(nodes, gcall'.args)) =>
          \A p \in Reorderings(gcall'.args) :
             LET r == AddResult(nodes, edges, p)
             IN  /\ (r.err = "none") <=> (gcall'.err = "none")
                 /\ r.err = "none" => (r.nodes = nodes' /\ r.edges = edges')
      ]_vars

\* C4's case: the consumer was handed to add before its producer, and the
\* edge producer -> consumer is in the graph
C4_Witness ==
    /\ gcall.op = "add" /\ gcall.err = "none" /\ Len(gcall.args) >= 2
    /\ Provides(gcall.args[2]) \cap Requires(gcall.args[1]) # {}
    /\ <<gcall.args[2], gcall.args[1]>> \in edges

\* C16: a link(u, v) that raises, for an endpoint that is no node of the
\* graph (the value error) or for an edge that would close a cycle (the
\* dependency error), leaves the node set and the edge set as they were
\* before the call; it raises the value error exactly when an endpoint is
\* missing, and an edge that was in the graph is still there afterwards.
C16_FailedLinkNoOp ==
    [][gcall'.op = "link" =>
          /\ gcall'.err # "none" => (nodes' = nodes /\ edges' = edges)
          /\ gcall'.err = "value" <=>
                (gcall'.args[1] \notin nodes \/ gcall'.args[2] \notin nodes)
          /\ edges \subseteq edges'
      ]_vars

\* C16's case: link(v, u) was refused where the edge u -> v is in the graph
\* with other edges, and the edges are all still there
C16_Witness ==
    /\ gcall.op = "link" /\ gcall.err = "dependency"
    /\ <<gcall.args[2], gcall.args[1]>> \in edges
    /\ <<gcall.args[1], gcall.args[2]>> \notin edges
    /\ Cardinality(edges) >= 2

\* C18: in every reachable state of a Graph Flow, flow.provides is the union
\* of the provides of its nodes, flow.requires is the union of the requires
\* of its nodes without flow.provides, and so the two are disjoint.
C18_SymbolAccounting ==
    /\ FlowProvides(nodes) = UNION {Provides(n) : n \in nodes}
    /\ FlowRequires(nodes) =
          UNION {Requires(n) : n \in nodes} \ UNION {Provides(n) : n \in nodes}
    /\ FlowRequires(nodes) \cap FlowProvides(nodes) = {}

\* C18's case: a node requires a symbol that another node provides, which
\* the flow therefore does not require, and the flow still requires a symbol
\* that no node provides
C18_Witness ==
    /\ FlowRequires(nodes) # {}
    /\ \E p, c \in nodes : p # c /\ Provides(p) \cap Requires(c) # {}

\* C20: for every two nodes p and c of the graph with a symbol that p
\* provides and c requires, the graph has the edge p -> c, whether the
\* producer or the consumer was added first, in one add call or in two; this
\* holds after every add and every link, the calls that raise included.
C20_EdgesComplete ==
    /\ \A p, c \in nodes :
          Provides(p) \cap Requires(c) # {} => <<p, c>> \in edges
    /\ [][(gcall'.op = "add" /\ gcall'.err = "none") =>
             /\ ItemSet(gcall'.args) \subseteq nodes'
             /\ \A p, c \in nodes' :
                   Provides(p) \cap Requires(c) # {} => <<p, c>> \in edges'
         ]_vars

\* C20's case: the consumer was in the graph before the add call that added
\* its producer, and the edge from the producer to the consumer is there
C20_Witness ==
    /\ gcall.op = "add" /\ gcall.err = "none"
    /\ \E c \in nodes \ ItemSet(gcall.args) : \E p \in ItemSet(gcall.args) :
          /\ Provides(p) \cap Requires(c) # {}
          /\ <<p, c>> \in edges

----------------------------------------------------------------------------
(***************************************************************************)
(* The state machine of a Storage.  Every public method is one action; a   *)
(* call that raises leaves what it had changed before the raise.           *)
(***************************************************************************)
\* the reserved name of the injector tasks
injector_name == "_TaskFlow_INJECTOR"

\* the uuids of the tasks of the engine
TaskUuids == {<<"task", 1>>, <<"task", 2>>}

\* uuidutils.generate_uuid(): the n-th uuid handed to inject
InjectorUuid(n) == <<"injector", n>>

\* the working state a call starts from
Working == [fd |-> fd, fstate |-> fstate, b |-> bstore, log |-> <<>>,
            err |-> "none", open |-> conns]

\* the Flow Detail, the backend and the call record a call leaves
Leave(w, op, args, ret) ==
    /\ fd' = w.fd
    /\ fstate' = w.fstate
    /\ bstore' = w.b
    /\ blog' = w.log
    /\ conns' = w.open
    /\ scall' = [op |-> op, args |-> args, err |-> w.err, ret |-> ret]
    /\ UNCHANGED <<hasBackend, gvars, tvars>>

AddTask(uuid, name, fail) ==
    /\ Leave(AddTaskOp(Working, hasBackend, fail, uuid, name), "add_task",
             [uuid |-> uuid, name |-> name], None)
    /\ UNCHANGED <<resultMappings, reverseMapping, injected>>

SetTaskState(uuid, state, fail) ==
    /\ Leave(SetTaskStateOp(Working, hasBackend, fail, uuid, state),
             "set_task_state", [uuid |-> uuid, state |-> state], None)
    /\ UNCHANGED <<resultMappings, reverseMapping, injected>>

SetTaskProgress(uuid, progress, kwargs, fail) ==
    /\ Leave(SetTaskProgressOp(Working, hasBackend, fail, uuid, progress, kwargs),
             "set_task_progress",
             [uuid |-> uuid, progress |-> progress, kwargs |-> kwargs], None)
    /\ UNCHANGED <<resultMappings, reverseMapping, injected>>

Save(uuid, data, state, fail) ==
    LET w == SaveOp(Working, hasBackend, fail, uuid, data, state)
    IN  /\ Leave(w, "save", [uuid |-> uuid, data |-> data, state |-> state],
                 IF w.err = "none"
                 THEN SaveWarnings(resultMappings, uuid, data)
                 ELSE {})
        /\ UNCHANGED <<resultMappings, reverseMapping, injected>>

Reset(uuid, state, fail) ==
    /\ Leave(ResetOp(Working, hasBackend, fail, uuid, state), "reset",
             [uuid |-> uuid, state |-> state], None)
    /\ UNCHANGED <<resultMappings, reverseMapping, injected>>

SetFlowState(state, fail) ==
    /\ Leave(SetFlowStateOp(Working, hasBackend, fail, state),
             "set_flow_state", [state |-> state], None)
    /\ UNCHANGED <<resultMappings, reverseMapping, injected>>

Inject(pairs, fail) ==
    LET uuid == InjectorUuid(injected + 1)
        w    == InjectOp(Working, hasBackend, fail, uuid, injector_name, pairs)
    IN  /\ Leave(w, "inject", [uuid |-> uuid, pairs |-> pairs], None)
        /\ injected' = injected + 1
        /\ reverseMapping' =
              IF w.err = "none"
              THEN AppendEntries(reverseMapping, uuid,
                                 [k \in DOMAIN pairs |-> PyStr(k)], DOMAIN pairs)
              ELSE reverseMapping
        /\ UNCHANGED resultMappings

SetResultMapping(uuid, mapping) ==
    /\ IF DOMAIN mapping = {}
       THEN UNCHANGED <<resultMappings, reverseMapping>>
       ELSE /\ resultMappings' = (uuid :> mapping) @@ resultMappings
            /\ reverseMapping' =
                  AppendEntries(reverseMapping, uuid, mapping, DOMAIN mapping)
    /\ scall' = [op |-> "set_result_mapping",
                 args |-> [uuid |-> uuid, mapping |-> mapping],
                 err |-> "none", ret |-> None]
    /\ blog' = <<>>
    /\ UNCHANGED <<fd, fstate, hasBackend, bstore, injected, conns, gvars, tvars>>

\* the call record of a method that only reads
Answer(op, args, r) ==
    /\ scall' = [op |-> op, args |-> args,
                 err |-> IF r.found THEN "none" ELSE "notfound", ret |-> r.val]
    /\ blog' = <<>>
    /\ UNCHANGED <<fd, fstate, resultMappings, reverseMapping, hasBackend,
                   bstore, injected, conns, gvars, tvars>>

Get(uuid) == Answer("get", [uuid |-> uuid], GetOp(fd, uuid))

Fetch(name) == Answer("fetch", [name |-> name], FetchOp(fd, reverseMapping, name))

----------------------------------------------------------------------------
(***************************************************************************)
(* The arguments of the calls.                                             *)
(***************************************************************************)
\* the names of results
ResultNames == {"x", "y"}

\* the uuids inject has generated, or may yet
InjectorUuids == {InjectorUuid(n) : n \in 1..MaxInjects}

\* the result a task hands to save
ListResult == PyList(<<PyInt(10)>>)

\* the result mappings handed to set_result_mapping
MappingArgs == {<<>>, ("x" :> None), ("x" :> PyInt(0)), ("x" :> PyInt(1))}

\* the parameters handed to inject
PairsArgs == {("x" :> PyInt(1)), ("x" :> PyInt(2)),
              ("x" :> PyInt(3)) @@ ("y" :> PyInt(4))}

\* some name of the mapping already has MaxEntries entries
EntriesFull(names) ==
    \E n \in names \cap DOMAIN reverseMapping :
        Len(reverseMapping[n]) >= MaxEntries

(***************************************************************************)
(* ResultSpec: a Storage without a backend whose engine adds tasks, sets   *)
(* their states, saves and resets their results, injects, and reads the    *)
(* results with get.                                                       *)
(***************************************************************************)
ResultInit == GraphStart /\ StorageStart({FALSE})

ResultNext ==
    \/ \E u \in TaskUuids : Len(fd) < MaxTasks /\ AddTask(u, "t", 0)
    \/ \E u \in TaskUuids, st \in {"RUNNING", "SUCCESS", "REVERTED"} :
          SetTaskState(u, st, 0)
    \/ \E u \in TaskUuids, d \in {ListResult, Failure} :
          Save(u, d, IF d = Failure THEN "FAILURE" ELSE "SUCCESS", 0)
    \/ \E u \in TaskUuids \cup InjectorUuids, st \in {"PENDING", "REVERTING"} :
          Reset(u, st, 0)
    \/ \E pairs \in PairsArgs :
          /\ injected < MaxInjects /\ Len(fd) < MaxTasks
          /\ Inject(pairs, 0)
    \/ \E u \in TaskUuids \cup InjectorUuids : Get(u)

ResultSpec == ResultInit /\ [][ResultNext]_vars

(***************************************************************************)
(* Properties of state and results, checked under ResultSpec.  No call     *)
(* stores None as a result there, so results are assigned exactly when     *)
(* they are not None.                                                      *)
(***************************************************************************)
\* a Task Detail in a results-bearing state whose results are not assigned
Uncoupled(td) == td.state \in STATES_WITH_RESULTS /\ td.results = None

\* C5 as stated: every Task Detail whose state is SUCCESS, REVERTING or
\* FAILURE has its results assigned by a save that no reset has cleared since.
C5_StateResultCoupling == \A i \in 1..Len(fd) : ~Uncoupled(fd[i])

\* C5 as amended: a Task Detail is in a results-bearing state without results
\* only from a set_task_state or a reset of its uuid that was handed that
\* results-bearing state; add_task, save and inject, and set_task_state and
\* reset with another state, never leave one so.
C5_CoupledUnlessForced ==
    [][\A i \in 1..Len(fd') :
          Uncoupled(fd'[i]) =>
             \/ i <= Len(fd) /\ fd[i] = fd'[i]
             \/ /\ scall'.op \in {"set_task_state", "reset"}
                /\ scall'.args.uuid = fd'[i].uuid
                /\ scall'.args.state = fd'[i].state]_vars

\* C5's case: a task holds the results save gave it in a results-bearing
\* state, while a reset has just put another one in such a state without any
C5_Witness ==
    /\ scall.op = "reset" /\ scall.err = "none"
    /\ \E i, j \in 1..Len(fd) :
          /\ fd[i].uuid = scall.args.uuid /\ Uncoupled(fd[i])
          /\ fd[j].state \in STATES_WITH_RESULTS /\ fd[j].results = ListResult

\* C6: get(uuid) returns the results of the first Task Detail with that uuid
\* if and only if its state is SUCCESS, REVERTING or FAILURE; for an unknown
\* uuid and for every other state it raises not-found; and it changes nothing
\* of the storage.
C6_GetCoupled ==
    [][scall'.op = "get" =>
          /\ UNCHANGED <<fd, fstate, resultMappings, reverseMapping, bstore>>
          /\ LET u      == scall'.args.uuid
                 known  == {i \in 1..Len(fd) : fd[i].uuid = u}
                 bears  == /\ known # {}
                           /\ \E i \in known :
                                 /\ \A j \in known : i <= j
                                 /\ fd[i].state \in STATES_WITH_RESULTS
             IN  /\ bears => /\ scall'.err = "none"
                             /\ \E i \in known :
                                   /\ \A j \in known : i <= j
                                   /\ scall'.ret = fd[i].results
                 /\ ~bears => scall'.err = "notfound"]_vars

\* C6's case: get has returned the saved results of a task in state SUCCESS
C6_Witness ==
    /\ scall.op = "get" /\ scall.err = "none" /\ scall.ret = ListResult
    /\ \E i \in 1..Len(fd) :
          fd[i].uuid = scall.args.uuid /\ fd[i].state = "SUCCESS"

\* C15: add_task with a uuid that a Task Detail of the Flow Detail already
\* has raises the duplicate error and leaves the Flow Detail as it was, so
\* that no two Task Details of the Flow Detail share a uuid.
C15_DuplicateRejected ==
    [][/\ (scall'.op = "add_task" /\ Find(fd, scall'.args.uuid) # 0) =>
             (scall'.err = "duplicate" /\ fd' = fd)
       /\ \A i, j \in 1..Len(fd') : fd'[i].uuid = fd'[j].uuid => i = j
      ]_vars

(***************************************************************************)
(* FetchSpec: a Storage without a backend whose engine names the results   *)
(* of its tasks, injects parameters, saves and resets, and fetches by name.*)
(***************************************************************************)
FetchInit == GraphStart /\ StorageStart({FALSE})

FetchNext ==
    \/ \E u \in TaskUuids : Len(fd) < MaxTasks /\ AddTask(u, "t", 0)
    \/ \E u \in TaskUuids, m \in MappingArgs :
          ~EntriesFull(DOMAIN m) /\ SetResultMapping(u, m)
    \/ \E pairs \in {("x" :> PyInt(1))} :
          /\ injected < MaxInjects /\ Len(fd) < MaxTasks
          /\ ~EntriesFull(DOMAIN pairs)
          /\ Inject(pairs, 0)
    \/ \E u \in TaskUuids : Save(u, ListResult, "SUCCESS", 0)
    \/ \E u \in TaskUuids \cup InjectorUuids : Reset(u, "PENDING", 0)
    \/ \E u \in TaskUuids, st \in {"RUNNING", "SUCCESS"} :
          SetTaskState(u, st, 0)
    \/ \E n \in ResultNames : Fetch(n)

FetchSpec == FetchInit /\ [][FetchNext]_vars

\* the entry resolves: its task is known and in a results-bearing state, and
\* its index subscripts the results of the task
Resolves(entry) ==
    \E i \in 1..Len(fd) :
        /\ fd[i].uuid = entry[1]
        /\ \A j \in 1..(i - 1) : fd[j].uuid # entry[1]
        /\ fd[i].state \in STATES_WITH_RESULTS
        /\ ItemFromResult(fd[i].results, entry[2]).found

\* the value the entry names in the results of its task
ValueOf(entry) ==
    LET i == CHOOSE k \in 1..Len(fd) :
                fd[k].uuid = entry[1] /\ \A j \in 1..(k - 1) : fd[j].uuid # entry[1]
    IN  ItemFromResult(fd[i].results, entry[2]).val

\* C7: fetch(name) returns the value of the earliest-registered entry
\* (uuid, index) under name whose task is in a results-bearing state and whose
\* index resolves in the results of that task; it raises not-found when name
\* has no entry and when no entry resolves.
C7_FetchEarliest ==
    scall.op = "fetch" =>
       LET n       == scall.args.name
           entries == IF n \in DOMAIN reverseMapping
                      THEN reverseMapping[n] ELSE <<>>
           good    == {k \in 1..Len(entries) : Resolves(entries[k])}
       IN  /\ good = {} => scall.err = "notfound"
           /\ good # {} =>
                 /\ scall.err = "none"
                 /\ \E k \in good : /\ \A l \in good : k <= l
                                    /\ scall.ret = ValueOf(entries[k])

\* C7's case: fetch has passed over an earlier entry that does not resolve
\* and returned the value of a later one
C7_Witness ==
    /\ scall.op = "fetch" /\ scall.err = "none"
    /\ LET entries == reverseMapping[scall.args.name]
       IN  /\ Len(entries) >= 2
           /\ ~Resolves(entries[1])
           /\ Resolves(entries[2])
           /\ scall.ret = ValueOf(entries[2])

(***************************************************************************)
(* WarnSpec: a Storage without a backend whose engine names the results of *)
(* its tasks, saves results that lack some of the named indexes, or a      *)
(* Failure, and fetches by name.                                           *)
(***************************************************************************)
\* the result mappings of WarnSpec
WarnMappings == {("a" :> PyInt(0)) @@ ("b" :> PyInt(5)),
                 ("b" :> PyInt(0)),
                 ("a" :> None)}

\* the result a task of WarnSpec hands to save
ShortResult == PyList(<<PyInt(42)>>)

WarnInit == GraphStart /\ StorageStart({FALSE})

WarnNext ==
    \/ \E u \in TaskUuids : Len(fd) < MaxTasks /\ AddTask(u, "t", 0)
    \/ \E u \in TaskUuids, m \in WarnMappings :
          ~EntriesFull(DOMAIN m) /\ SetResultMapping(u, m)
    \/ \E u \in TaskUuids, d \in {ShortResult, Failure} :
          Save(u, d, IF d = Failure THEN "FAILURE" ELSE "SUCCESS", 0)
    \/ \E u \in TaskUuids : Reset(u, "PENDING", 0)
    \/ \E n \in {"a", "b"} : Fetch(n)

WarnSpec == WarnInit /\ [][WarnNext]_vars

\* the mapped names of the task of the last save
Mapped ==
    IF scall.args.uuid \in DOMAIN resultMappings
    THEN DOMAIN resultMappings[scall.args.uuid]
    ELSE {}

\* the mapped names of the task of the last save whose index subscripts the
\* saved data
Supplied ==
    {n \in Mapped :
        ItemFromResult(scall.args.data,
                       resultMappings[scall.args.uuid][n]).found}

\* save stored the state and the data, raised nothing, and warned of the
\* names expected: all of this for a known uuid, not-found for an unknown one
SavedAndWarned(expected) ==
    IF Find(fd, scall.args.uuid) = 0
    THEN scall.err = "notfound"
    ELSE /\ scall.err = "none"
         /\ fd[Find(fd, scall.args.uuid)].state = scall.args.state
         /\ fd[Find(fd, scall.args.uuid)].results = scall.args.data
         /\ scall.ret = expected

\* C17 as stated: save(uuid, data) for a known uuid never raises for an index
\* that data lacks; it stores the state and the results and warns of exactly
\* the mapped names whose index does not resolve in data (of none when data
\* is a Failure); the names that resolve are fetchable, and fetch raises
\* not-found for the others.
C17_IncompleteNonFatal ==
    scall.op = "save" =>
       /\ SavedAndWarned(IF scall.args.data = Failure
                         THEN {} ELSE Mapped \ Supplied)
       /\ Find(fd, scall.args.uuid) # 0 =>
             \A n \in Mapped :
                FetchOp(fd, reverseMapping, n).found <=> n \in Supplied

\* C17 as amended: the same, except that fetch of a mapped name whose index
\* does not resolve in data raises not-found unless another entry registered
\* under that name (of another task, or of an earlier mapping of this task)
\* resolves; fetch then returns the value of that entry.
C17_IncompleteUnlessShadowed ==
    scall.op = "save" =>
       /\ SavedAndWarned(IF scall.args.data = Failure
                         THEN {} ELSE Mapped \ Supplied)
       /\ Find(fd, scall.args.uuid) # 0 =>
             \A n \in Mapped :
                LET own   == <<scall.args.uuid, resultMappings[scall.args.uuid][n]>>
                    other == {k \in 1..Len(reverseMapping[n]) :
                                /\ reverseMapping[n][k] # own
                                /\ Resolves(reverseMapping[n][k])}
                IN  /\ n \in Supplied => FetchOp(fd, reverseMapping, n).found
                    /\ n \notin Supplied =>
                          /\ FetchOp(fd, reverseMapping, n).found <=> other # {}
                          /\ other # {} =>
                                \E k \in other :
                                   FetchOp(fd, reverseMapping, n).val =
                                      ValueOf(reverseMapping[n][k])

\* C17's case: the mapping names index 0 and index 5 of the result, save has
\* stored a list of one item and warned of the second name; the first name
\* is fetchable and the second is not
C17_Witness ==
    /\ scall.op = "save" /\ scall.err = "none"
    /\ scall.args.data = ShortResult
    /\ scall.ret = {"b"}
    /\ FetchOp(fd, reverseMapping, "a") = Found(PyInt(42))
    /\ ~FetchOp(fd, reverseMapping, "b").found

(***************************************************************************)
(* InjectSpec: a Storage, with or without a backend that takes every       *)
(* update, whose only calls are inject, reset of an injector and fetch.    *)
(***************************************************************************)
InjectInit == GraphStart /\ StorageStart({FALSE, TRUE})

InjectNext ==
    \/ \E pairs \in PairsArgs : injected < MaxInjects /\ Inject(pairs, 0)
    \/ \E u \in InjectorUuids, st \in {"PENDING", "SUCCESS"} : Reset(u, st, 0)
    \/ \E n \in ResultNames : Fetch(n)

InjectSpec == InjectInit /\ [][InjectNext]_vars

\* the Task Detail of the n-th injector
InjectorDetail(n) ==
    fd[CHOOSE i \in 1..Len(fd) : fd[i].uuid = InjectorUuid(n)]

\* the n-th inject supplied the key and its injector has not been reset: a
\* reset, and nothing else in InjectSpec, leaves an injector's results None
Supplies(n, key) ==
    /\ InjectorDetail(n).results # None
    /\ key \in DOMAIN InjectorDetail(n).results.map

\* C8: after several inject calls that supply the same key, fetch(key)
\* returns the value of the earliest inject (in call order) whose injector has
\* not been reset, so the next inject's value once that one is reset, and
\* raises not-found once all of them are reset.
C8_InjectStacking ==
    scall.op = "fetch" =>
       LET key  == scall.args.name
           live == {n \in 1..injected : Supplies(n, key)}
       IN  /\ live = {} => scall.err = "notfound"
           /\ live # {} =>
                 /\ scall.err = "none"
                 /\ \E n \in live :
                       /\ \A m \in live : n <= m
                       /\ scall.ret = InjectorDetail(n).results.map[key]

\* C8's case: two injects supplied the key, the first injector was reset,
\* and fetch returned the value of the second
C8_Witness ==
    /\ scall.op = "fetch" /\ scall.err = "none" /\ injected >= 2
    /\ Len(reverseMapping[scall.args.name]) >= 2
    /\ reverseMapping[scall.args.name][1][1] = InjectorUuid(1)
    /\ InjectorDetail(1).results = None
    /\ Supplies(2, scall.args.name)
    /\ scall.ret = InjectorDetail(2).results.map[scall.args.name]

(***************************************************************************)
(* BackendSpec: a Storage with or without a backend; any backend update of *)
(* a call may raise.                                                       *)
(***************************************************************************)
BackendInit == GraphStart /\ StorageStart({FALSE, TRUE})

\* which of the n backend updates of a call raises: none (0) or the k-th
FailArgs(n) == IF hasBackend THEN 0..n ELSE {0}

\* the task the engine of BackendSpec runs
FirstTask == <<"task", 1>>

\* the keyword arguments handed to set_task_progress: none, or some
KwargsArgs == {None, PyDict(("note" :> PyInt(1)))}

BackendNext ==
    \/ \E fail \in FailArgs(2) :
          Len(fd) < MaxTasks /\ AddTask(FirstTask, "t", fail)
    \/ \E fail \in FailArgs(1) : SetTaskState(FirstTask, "RUNNING", fail)
    \/ \E kw \in KwargsArgs, fail \in FailArgs(1) :
          SetTaskProgress(FirstTask, PyInt(1), kw, fail)
    \/ \E fail \in FailArgs(1) : Save(FirstTask, ListResult, "SUCCESS", fail)
    \/ \E fail \in FailArgs(1) : Reset(FirstTask, "PENDING", fail)
    \/ \E fail \in FailArgs(3) :
          /\ injected < MaxInjects /\ Len(fd) < MaxTasks
          /\ Inject(("x" :> PyInt(1)), fail)
    \/ \E fail \in FailArgs(1) : SetFlowState("RUNNING", fail)

BackendSpec == BackendInit /\ [][BackendNext]_vars

\* the first Task Detail with the uuid in a Flow Detail that holds one
First(tds, uuid) ==
    tds[CHOOSE i \in 1..Len(tds) :
           tds[i].uuid = uuid /\ \A j \in 1..(i - 1) : tds[j].uuid # uuid]

\* the last backend update of the call offered this Task Detail
OfferedLast(td) ==
    /\ blog' # <<>>
    /\ blog'[Len(blog')] = [kind |-> "task", td |-> td]

\* td is the Task Detail old after set_task_progress(progress, kwargs)
ProgressSet(td, old, progress, kwargs) ==
    /\ td.meta # None
    /\ td.meta.map["progress"] = progress
    /\ ("progress_details" \in DOMAIN td.meta.map) <=> (kwargs # None)
    /\ kwargs # None => td.meta.map["progress_details"] = kwargs
    /\ [td EXCEPT !.meta = None] = [old EXCEPT !.meta = None]

\* what a Task Detail of the uuid is to be after the call that returned
Mutated(td, old, op, a) ==
    CASE op = "set_task_state" -> td = [old EXCEPT !.state = a.state]
      [] op = "save" ->
            td = [old EXCEPT !.state = a.state, !.results = a.data]
      [] op = "reset" ->
            td = [old EXCEPT !.state = a.state, !.results = None]
      [] op = "set_task_progress" -> ProgressSet(td, old, a.progress, a.kwargs)

\* C9: if a backend update of add_task(uuid, name) raises, the in-memory
\* Flow Detail equals its value before the call: it holds no Task Detail that
\* the call added.
C9_AddTaskAtomic ==
    [][(scall'.op = "add_task" /\ scall'.err = "backend") => fd' = fd]_vars

\* C10: when add_task, set_task_state, set_task_progress, save, reset, inject
\* or set_flow_state returns with a backend configured, the Task Detail or
\* Flow Detail as the call mutated it was handed to update_task_details or
\* update_flow_details; without a backend no update is made, no such call
\* raises a backend error, and the in-memory detail is mutated the same way.
C10_PersistBeforeReturn ==
    [][/\ ~hasBackend => (blog' = <<>> /\ scall'.err # "backend")
       /\ (scall'.err = "none" /\ scall'.op \in
             {"set_task_state", "save", "reset", "set_task_progress"}) =>
            LET u  == scall'.args.uuid
                td == First(fd', u)
            IN  /\ Mutated(td, First(fd, u), scall'.op, scall'.args)
                /\ hasBackend => OfferedLast(td)
       /\ (scall'.err = "none" /\ scall'.op = "add_task") =>
            LET td == TaskDetail(scall'.args.uuid, scall'.args.name)
            IN  /\ \E i \in 1..Len(fd') : fd'[i] = td
                /\ hasBackend =>
                     /\ OfferedLast(td)
                     /\ \E k \in 1..Len(blog') :
                           /\ blog'[k].kind = "flow"
                           /\ \E i \in 1..Len(blog'[k].tasks) :
                                 blog'[k].tasks[i] = td
       /\ (scall'.err = "none" /\ scall'.op = "inject") =>
            LET u  == scall'.args.uuid
                td == First(fd', u)
            IN  /\ td = [TaskDetail(u, injector_name) EXCEPT
                            !.state = "SUCCESS",
                            !.results = PyDict(scall'.args.pairs)]
                /\ hasBackend => OfferedLast(td)
       /\ (scall'.err = "none" /\ scall'.op = "set_flow_state") =>
            /\ fstate' = scall'.args.state
            /\ hasBackend =>
                 /\ blog' # <<>>
                 /\ blog'[Len(blog')] =
                       [kind |-> "flow", state |-> scall'.args.state,
                        tasks |-> fd]
      ]_vars

\* C10's case: with a backend, save has returned and the last update offered
\* the Task Detail with the saved state and results
C10_Witness ==
    /\ hasBackend /\ scall.op = "save" /\ scall.err = "none"
    /\ blog # <<>>
    /\ blog[Len(blog)].kind = "task"
    /\ blog[Len(blog)].td.results = ListResult
    /\ blog[Len(blog)].td.state = "SUCCESS"
    /\ First(fd, scall.args.uuid) = blog[Len(blog)].td

\* C12: every connection a Storage call obtained from the backend is closed
\* before the call returns or raises, also when the backend update raises, so
\* between the calls the Storage holds no open connection; a call that made
\* backend updates did obtain connections, and none is obtained without a
\* backend.
C12_ScopedConnections ==
    /\ conns = 0
    /\ ~hasBackend => blog = <<>>

\* C12's case: the second backend update of add_task (a connection of its
\* own) raised, and no connection is left open
C12_Witness ==
    /\ hasBackend /\ scall.op = "add_task" /\ scall.err = "backend"
    /\ Len(blog) = 2
    /\ conns = 0

----------------------------------------------------------------------------
(***************************************************************************)
(* PeerSpec: a Storage with a backend that takes every update, and a peer  *)
(* writer (another process or engine) that changes the same flow record in *)
(* the backend between the calls of the Storage: it adds a Task Detail of  *)
(* its own, it sets the state of a Task Detail, it sets the flow state.    *)
(***************************************************************************)
\* the uuid of the task the peer adds to the flow record
PeerTask == <<"peer", 1>>

\* the record of a write of the peer; it is no call of the Storage
PeerWrote(args) ==
    /\ scall' = [op |-> "peer", args |-> args, err |-> "none", ret |-> None]
    /\ blog' = <<>>
    /\ UNCHANGED <<fd, fstate, resultMappings, reverseMapping, hasBackend,
                   injected, conns, gvars, tvars>>

\* the peer adds a Task Detail to the flow record
PeerAddTask(uuid, name) ==
    /\ Find(bstore.tasks, uuid) = 0
    /\ bstore' = [bstore EXCEPT !.tasks = Append(@, TaskDetail(uuid, name))]
    /\ PeerWrote([uuid |-> uuid])

\* the peer sets the state of a Task Detail of the flow record
PeerSetTaskState(uuid, state) ==
    /\ Find(bstore.tasks, uuid) # 0
    /\ bstore.tasks[Find(bstore.tasks, uuid)].state # state
    /\ bstore' = [bstore EXCEPT !.tasks[Find(bstore.tasks, uuid)].state = state]
    /\ PeerWrote([uuid |-> uuid, state |-> state])

\* the peer sets the state of the flow record
PeerSetFlowState(state) ==
    /\ bstore.state # state
    /\ bstore' = [bstore EXCEPT !.state = state]
    /\ PeerWrote([state |-> state])

PeerInit == GraphStart /\ StorageStart({TRUE})

PeerNext ==
    \/ Len(fd) < MaxTasks /\ AddTask(FirstTask, "t", 0)
    \/ \E st \in {"RUNNING", "SUCCESS"} : SetTaskState(FirstTask, st, 0)
    \/ Save(FirstTask, ListResult, "SUCCESS", 0)
    \/ Reset(FirstTask, "PENDING", 0)
    \/ SetFlowState("RUNNING", 0)
    \/ PeerAddTask(PeerTask, "p")
    \/ \E u \in {FirstTask, PeerTask} : PeerSetTaskState(u, "REVERTED")
    \/ PeerSetFlowState("SUSPENDED")

PeerSpec == PeerInit /\ [][PeerNext]_vars

C14_SetTaskStateIdempotent ==
    [][(scall'.op = "set_task_state" /\ scall'.err = "none") =>
          LET once  == [fd |-> fd', fstate |-> fstate', b |-> bstore',
                        log |-> <<>>, err |-> "none", open |-> conns']
              twice == SetTaskStateOp(once, hasBackend, 0, scall'.args.uuid,
                                      scall'.args.state)
          IN  /\ twice.err = "none"
              /\ twice.fd = fd'
              /\ twice.fstate = fstate'
              /\ twice.b = bstore'
              /\ twice.open = conns'
              /\ First(fd', scall'.args.uuid).state = scall'.args.state
              /\ UNCHANGED <<resultMappings, reverseMapping>>
      ]_vars

\* C14's case: set_task_state has returned for a task whose record a peer
\* had changed in the backend, where the flow record holds a task of the peer
\* that the Flow Detail does not
C14_Witness ==
    /\ scall.op = "set_task_state" /\ scall.err = "none"
    /\ First(fd, scall.args.uuid).state = "SUCCESS"
    /\ First(bstore.tasks, scall.args.uuid).state = "SUCCESS"
    /\ Find(bstore.tasks, PeerTask) # 0
    /\ Find(fd, PeerTask) = 0

----------------------------------------------------------------------------
(***************************************************************************)
(* ThreadSafeStorage: the threads of an engine call one Storage whose      *)
(* public methods are each wrapped in the lock of the instance.  A thread  *)
(* keeps a stack of frames, one for every public method it is in; a frame  *)
(* holds the method (op), its arguments (args), the place it has reached   *)
(* (pc), a loop counter (i) and what the last method it called returned    *)
(* (r; NotFound stands for the exception).  A step of a method is one      *)
(* statement of its body, so that the steps of two threads interleave      *)
(* wherever the lock lets them.                                            *)
(***************************************************************************)
\* the frame of a public method that has been called and not yet entered
Frame(op, args) ==
    [op |-> op, args |-> args, pc |-> "enter", i |-> 1, r |-> Found(None)]

\* the frame of the method the thread is in
Top(t) == th[t].stack[Len(th[t].stack)]

\* the thread is in a call it has not returned from
Running(t) == th[t].status = "running"

\* the storage as a step of a method finds it
Cur == [fd |-> fd, fstate |-> fstate, b |-> bstore, open |-> conns,
        rmap |-> reverseMapping, injected |-> injected]

\* the storage after a persistence step that left the working state w
FromW(w) == [Cur EXCEPT !.fd = w.fd, !.fstate = w.fstate, !.b = w.b,
                        !.open = w.open]

\* the outcome of a step: the storage, the frame, the frame of a method the
\* step calls (None when it calls none)
Outcome(s, f, push) == [s |-> s, f |-> f, push |-> push]

\* the frame at another place
At(f, pc) == [f EXCEPT !.pc = pc]

\* the frame of a method that returns r, or raises when r is NotFound
Return(f, r) == [f EXCEPT !.pc = "exit", !.r = r]

\* save(uuid, data, state), statement by statement
RunSave(f) ==
    LET pos == Find(fd, f.args.uuid)
    IN  CASE f.pc = "body" ->
                IF pos = 0
                THEN Outcome(Cur, Return(f, NotFound), None)
                ELSE Outcome(Cur, At(f, "state"), None)
          [] f.pc = "state" ->
                Outcome([Cur EXCEPT !.fd[pos].state = f.args.state],
                        At(f, "results"), None)
          [] f.pc = "results" ->
                Outcome([Cur EXCEPT !.fd[pos].results = f.args.data],
                        At(f, "persist"), None)
          [] f.pc = "persist" ->
                Outcome(FromW(SaveTaskDetail(Working, hasBackend, 0, f.args.uuid)),
                        Return(f, Found(None)), None)

\* reset(uuid, state), statement by statement
RunReset(f) ==
    LET pos == Find(fd, f.args.uuid)
    IN  CASE f.pc = "body" ->
                IF pos = 0
                THEN Outcome(Cur, Return(f, NotFound), None)
                ELSE Outcome(Cur, At(f, "results"), None)
          [] f.pc = "results" ->
                Outcome([Cur EXCEPT !.fd[pos].results = None],
                        At(f, "state"), None)
          [] f.pc = "state" ->
                Outcome([Cur EXCEPT !.fd[pos].state = f.args.state],
                        At(f, "persist"), None)
          [] f.pc = "persist" ->
                Outcome(FromW(SaveTaskDetail(Working, hasBackend, 0, f.args.uuid)),
                        Return(f, Found(None)), None)

\* add_task(uuid, task_name), statement by statement
RunAddTask(f) ==
    CASE f.pc = "body" ->
            Outcome([Cur EXCEPT !.fd =
                        Append(fd, TaskDetail(f.args.uuid, f.args.name))],
                    At(f, "pflow"), None)
      [] f.pc = "pflow" ->
            Outcome(FromW(SaveFlowDetail(Working, hasBackend, 0)),
                    At(f, "ptask"), None)
      [] f.pc = "ptask" ->
            Outcome(FromW(SaveTaskDetail(Working, hasBackend, 0, f.args.uuid)),
                    Return(f, Found(None)), None)

\* get(uuid)
RunGet(f) == Outcome(Cur, Return(f, GetOp(fd, f.args.uuid)), None)

\* a mutation of InjectCalls: inject does not call add_task
InjectCallsSaveOnly == <<"save">>

\* the public methods inject calls on its own instance, in order
InjectCalls == <<"add_task", "save">>

\* the arguments inject hands to add_task and to save
InjectArgs(op, f) ==
    IF op = "add_task"
    THEN [uuid |-> f.args.uuid, name |-> injector_name]
    ELSE [uuid |-> f.args.uuid, data |-> PyDict(f.args.pairs),
          state |-> "SUCCESS"]

\* inject(pairs), statement by statement
RunInject(f) ==
    CASE f.pc = "body" ->
            Outcome([Cur EXCEPT !.injected = @ + 1],
                    [f EXCEPT !.pc = "calls",
                              !.args.uuid = InjectorUuid(injected + 1)],
                    None)
      [] f.pc = "calls" ->
            IF ~f.r.found
            THEN Outcome(Cur, Return(f, NotFound), None)
            ELSE IF f.i > Len(InjectCalls)
            THEN Outcome(Cur, At(f, "entries"), None)
            ELSE Outcome(Cur, [f EXCEPT !.i = @ + 1],
                         Frame(InjectCalls[f.i], InjectArgs(InjectCalls[f.i], f)))
      [] f.pc = "entries" ->
            Outcome([Cur EXCEPT !.rmap =
                        AppendEntries(reverseMapping, f.args.uuid,
                                      [k \in DOMAIN f.args.pairs |-> PyStr(k)],
                                      DOMAIN f.args.pairs)],
                    Return(f, Found(None)), None)

\* fetch(name), statement by statement; the loop calls get for every entry
RunFetch(f) ==
    CASE f.pc = "body" ->
            IF f.args.name \notin DOMAIN reverseMapping
            THEN Outcome(Cur, Return(f, NotFound), None)
            ELSE Outcome(Cur, At(f, "loop"), None)
      [] f.pc = "loop" ->
            IF f.i > Len(reverseMapping[f.args.name])
            THEN Outcome(Cur, Return(f, NotFound), None)
            ELSE Outcome(Cur, At(f, "got"),
                         Frame("get",
                               [uuid |-> reverseMapping[f.args.name][f.i][1]]))
      [] f.pc = "got" ->
            LET item == IF f.r.found
                        THEN ItemFromResult(f.r.val,
                                reverseMapping[f.args.name][f.i][2])
                        ELSE NotFound
            IN  IF item.found
                THEN Outcome(Cur, Return(f, item), None)
                ELSE Outcome(Cur, [f EXCEPT !.pc = "loop", !.i = @ + 1], None)

\* the next statement of the method of the frame
Run(f) ==
    CASE f.op = "save" -> RunSave(f)
      [] f.op = "reset" -> RunReset(f)
      [] f.op = "add_task" -> RunAddTask(f)
      [] f.op = "get" -> RunGet(f)
      [] f.op = "inject" -> RunInject(f)
      [] f.op = "fetch" -> RunFetch(f)

(***************************************************************************)
(* The lock.  The metaclass of ThreadSafeStorage is modelled from its      *)
(* description: every public method takes the lock of the instance when it *)
(* is entered and gives it back when it returns or raises; whether the     *)
(* lock is reentrant is a property of the lock the metaclass creates.      *)
(***************************************************************************)
\* a mutation of CanAcquire: the methods are not serialized
CanAcquireAlways(t) == TRUE

\* the lock is free, or it is reentrant and this thread holds it
CanAcquire(t) == lock.holder = 0 \/ (reentrant /\ lock.holder = t)

\* the lock after the thread has taken it
Acquired(t) == [holder |-> t, count |-> lock.count + 1]

\* the lock after its holder has given it back once
Released ==
    IF lock.count <= 1
    THEN [holder |-> 0, count |-> 0]
    ELSE [lock EXCEPT !.count = @ - 1]

\* the calls of the threads applied one after another, in the order in which
\* they took the lock: the storage before the first call, else what the
\* calls so far have left
SeqBase ==
    IF seq = None
    THEN [fd |-> fd, fstate |-> fstate, b |-> bstore, rmap |-> reverseMapping,
          injected |-> injected, rets |-> [t \in Threads |-> None]]
    ELSE seq

\* the working state of a whole call on the storage m
SeqWorking(m) == [fd |-> m.fd, fstate |-> m.fstate, b |-> m.b, log |-> <<>>,
                  err |-> "none", open |-> 0]

\* what a whole call that left the working state w returns
SeqReturn(w) == IF w.err = "none" THEN Found(None) ELSE NotFound

\* the call of thread t applied, as a whole, after the calls before it
SeqApply(t, op, a) ==
    LET m == SeqBase
        w == CASE op = "save" ->
                    SaveOp(SeqWorking(m), hasBackend, 0, a.uuid, a.data, a.state)
               [] op = "reset" ->
                    ResetOp(SeqWorking(m), hasBackend, 0, a.uuid, a.state)
               [] op = "inject" ->
                    InjectOp(SeqWorking(m), hasBackend, 0,
                             InjectorUuid(m.injected + 1), injector_name, a.pairs)
               [] op = "fetch" -> SeqWorking(m)
        m1 == [m EXCEPT !.fd = w.fd, !.fstate = w.fstate, !.b = w.b]
    IN  CASE op = "inject" ->
                [m1 EXCEPT !.injected = @ + 1,
                           !.rmap = AppendEntries(m.rmap,
                                       InjectorUuid(m.injected + 1),
                                       [k \in DOMAIN a.pairs |-> PyStr(k)],
                                       DOMAIN a.pairs),
                           !.rets[t] = SeqReturn(w)]
          [] op = "fetch" -> [m1 EXCEPT !.rets[t] = FetchOp(m.fd, m.rmap, a.name)]
          [] OTHER -> [m1 EXCEPT !.rets[t] = SeqReturn(w)]

\* a step of a thread leaves the storage s
TLeave(s) ==
    /\ fd' = s.fd
    /\ fstate' = s.fstate
    /\ bstore' = s.b
    /\ conns' = s.open
    /\ reverseMapping' = s.rmap
    /\ injected' = s.injected
    /\ UNCHANGED <<resultMappings, hasBackend, scall, blog, reentrant, gvars>>

\* the thread calls a public method of the storage
TCall(t, op, args) ==
    /\ th[t].status = "new"
    /\ th' = [th EXCEPT ![t].status = "running", ![t].op = op,
                        ![t].stack = <<Frame(op, args)>>]
    /\ UNCHANGED <<lock, seq>>
    /\ TLeave(Cur)

\* the wrapper of a public method takes the lock
TEnter(t) ==
    /\ Running(t)
    /\ Top(t).pc = "enter"
    /\ CanAcquire(t)
    /\ lock' = Acquired(t)
    /\ th' = [th EXCEPT ![t].stack[Len(th[t].stack)].pc = "body"]
    /\ seq' = IF Len(th[t].stack) = 1
              THEN SeqApply(t, Top(t).op, Top(t).args)
              ELSE seq
    /\ TLeave(Cur)

\* the method runs its next statement
TStep(t) ==
    /\ Running(t)
    /\ Top(t).pc \notin {"enter", "exit"}
    /\ LET o == Run(Top(t))
           k == Len(th[t].stack)
       IN  /\ th' = IF o.push = None
                    THEN [th EXCEPT ![t].stack[k] = o.f]
                    ELSE [th EXCEPT ![t].stack = Append([@ EXCEPT ![k] = o.f],
                                                        o.push),
                                    ![t].calls = Append(@, o.push.op)]
           /\ TLeave(o.s)
    /\ UNCHANGED <<lock, seq>>

\* the method returns or raises: the wrapper gives the lock back, and the
\* caller, the method that called it or the thread, has what it returned
TExit(t) ==
    /\ Running(t)
    /\ Top(t).pc = "exit"
    /\ lock' = Released
    /\ LET k == Len(th[t].stack)
       IN  th' = IF k = 1
                 THEN [th EXCEPT ![t].status = "done", ![t].stack = <<>>,
                                 ![t].ret = Top(t).r]
                 ELSE [th EXCEPT ![t].stack =
                          [SubSeq(@, 1, k - 1) EXCEPT ![k - 1].r = Top(t).r]]
    /\ UNCHANGED seq
    /\ TLeave(Cur)

\* the calls a thread makes
ThreadCalls(t) ==
    {[op |-> "save",
      args |-> [uuid |-> FirstTask, data |-> ListResult, state |-> "SUCCESS"]],
     [op |-> "reset", args |-> [uuid |-> FirstTask, state |-> "PENDING"]],
     [op |-> "inject", args |-> [pairs |-> ("x" :> PyInt(t)), uuid |-> None]],
     [op |-> "fetch", args |-> [name |-> "x"]]}

(***************************************************************************)
(* ThreadSpec: the engine adds its task, then every thread makes one call. *)
(***************************************************************************)
ThreadInit ==
    GraphStart /\ StorageFresh({FALSE, TRUE}) /\ ThreadsStart({FALSE, TRUE})

ThreadNext ==
    \/ /\ \A t \in Threads : th[t].status = "new"
       /\ fd = <<>>
       /\ AddTask(FirstTask, "t", 0)
    \/ \E t \in Threads : \E c \in ThreadCalls(t) : TCall(t, c.op, c.args)
    \/ \E t \in Threads : TEnter(t)
    \/ \E t \in Threads : TStep(t)
    \/ \E t \in Threads : TExit(t)

ThreadSpec == ThreadInit /\ [][ThreadNext]_vars

\* the thread is inside a public method: it has taken the lock for its call
\* and not yet given it back
Inside(t) ==
    /\ Running(t)
    /\ ~(Len(th[t].stack) = 1 /\ Top(t).pc = "enter")

\* every thread has returned from its call
AllDone == \A t \in Threads : th[t].status = "done"

\* the storage is what the calls applied one after another have left
AsInSequence ==
    /\ fd = seq.fd
    /\ fstate = seq.fstate
    /\ bstore = seq.b
    /\ reverseMapping = seq.rmap
    /\ injected = seq.injected
    /\ \A t \in Threads : th[t].status = "done" => th[t].ret = seq.rets[t]

\* C13: when several threads call one ThreadSafeStorage, no two of them are
\* inside a public method at the same time (the steps of two calls never
\* interleave), and whenever no thread is inside one, in every final state
\* above all, the task states, the results, the reverse mapping, the backend
\* records and what the finished calls returned are those of the calls made
\* one after another in the order in which they took the lock.
C13_Linearizable ==
    /\ \A t1, t2 \in Threads : (Inside(t1) /\ Inside(t2)) => t1 = t2
    /\ (seq # None /\ \A t \in Threads : ~Inside(t)) => AsInSequence

\* C13's case: two threads have injected the same name and both have
\* returned; the thread that took the lock first has the first uuid, and the
\* reverse mapping lists its entry first
C13_Witness ==
    /\ AllDone
    /\ hasBackend
    /\ "x" \in DOMAIN reverseMapping
    /\ reverseMapping["x"] = <<<<InjectorUuid(1), PyStr("x")>>,
                               <<InjectorUuid(2), PyStr("x")>>>>
    /\ Len(fd) = 3
    /\ fd[2].uuid = InjectorUuid(1) /\ fd[3].uuid = InjectorUuid(2)
    /\ fd[2].results # fd[3].results
    /\ bstore.tasks = fd

\* the thread waits, at the entry of a public method, for a lock that it
\* holds itself
SelfBlocked(t) ==
    /\ Running(t)
    /\ Top(t).pc = "enter"
    /\ lock.holder = t
    /\ ~CanAcquire(t)

\* the thread can take a step
CanStep(t) == Running(t) /\ (Top(t).pc = "enter" => CanAcquire(t))

=============================================================================
